---- MODULE Spec2Model ----
(***************************************************************************)
(* The layout-migration scripts of CodeConversionTool:                     *)
(*   dynamic_update_layout.py                           (update_file)      *)
(*   fix_all_components.py / fix_jsx_advanced.py        (fix_jsx)          *)
(*   batch_update_layout.py / fix_layout_migration.py   (do not compile)   *)
(*                                                                         *)
(* A text (file content, path, message) is a string, and Python's str and  *)
(* re operations are modelled character by character.                      *)
(*                                                                         *)
(* fix_output_section.py, a one-off heading swap in one component, is not  *)
(* modelled: the texts it replaces and prints hold characters (U+2713 and  *)
(* emoji) that no string of this module can hold.                          *)
(*                                                                         *)
(* batch_update_layout.py (lines 18-19) and fix_layout_migration.py (lines *)
(* 5-6 and 38-39) hold a string literal that is broken across two lines:   *)
(* python stops with SyntaxError before it runs any statement of them.     *)
(***************************************************************************)
EXTENDS Integers, Sequences, FiniteSets, TLC

VARIABLES
  script,      \* the script this process runs
  disk,        \* the filesystem: path -> content, for the files that exist
  unreadable,  \* paths whose open(..., "r") or read() raises
  unwritable,  \* paths whose open(..., "w") raises
  pc,          \* "start", "loop", "done", "crashed"
  files,       \* the .tsx paths the walk found, in the order it found them
  idx,         \* position of the loop in files (1-based)
  results,     \* the results list of dynamic_update_layout.py
  out,         \* lines printed to stdout by this run
  written,     \* paths this run has opened for writing
  hist         \* the disk at the start of each run so far (hist[1] = initial)

vars == <<script, disk, unreadable, unwritable, pc, files, idx, results, out, written, hist>>

----------------------------------------------------------------------------
(* Bounds of the model *)

MaxLen == 5      \* migration: chunks in the initial content of a file
MaxChunks == 3   \* sweeps: chunks in the initial content of a file
MaxFiles == 2    \* files in a tree
MaxRuns == 2     \* times a script is run in a row

----------------------------------------------------------------------------
(* The literals of the scripts *)

MARK == "TwoColumnLayout"
SEO == "import SEO from"
DELIM == "<div className=\"w-full lg:w-1/2"
CLOSE == "</div>"

TABMAP == "{tabOrder.map((lang, index) => {"
TABBODY == "\n  const { label, icon } = languageDetails[lang];\n  return ("

----------------------------------------------------------------------------
(* Python's str operations *)

Min(S) == CHOOSE x \in S : \A y \in S : x <= y

\* s[i-1], "" outside the text
At(s, i) == IF i >= 1 /\ i <= Len(s) THEN SubSeq(s, i, i) ELSE ""

\* s.startswith(t, i-1)
StartsAt(s, t, i) ==
  /\ i >= 1
  /\ i + Len(t) - 1 <= Len(s)
  /\ At(s, i) = At(t, 1)
  /\ SubSeq(s, i, i + Len(t) - 1) = t

\* s.find(t, k-1) + 1: the first position from k on where t occurs, 0 if none
FindFrom(s, t, k) ==
  LET P == {i \in k..(Len(s) - Len(t) + 1) : StartsAt(s, t, i)}
  IN IF P = {} THEN 0 ELSE Min(P)

\* `t in s`
Contains(s, t) == FindFrom(s, t, 1) > 0

\* s.startswith(t), s.endswith(t)
StartsWith(s, t) == StartsAt(s, t, 1)
EndsWith(s, t) == StartsAt(s, t, Len(s) - Len(t) + 1)

\* s.split(t): every occurrence splits, left to right
RECURSIVE Split(_, _)
Split(s, t) ==
  LET i == FindFrom(s, t, 1)
  IN IF i = 0 THEN <<s>>
     ELSE <<SubSeq(s, 1, i - 1)>> \o Split(SubSeq(s, i + Len(t), Len(s)), t)

\* s.split(t, 1): the first occurrence splits
SplitOnce(s, t) ==
  LET i == FindFrom(s, t, 1)
  IN IF i = 0 THEN <<s>>
     ELSE <<SubSeq(s, 1, i - 1), SubSeq(s, i + Len(t), Len(s))>>

\* sep.join(parts)
RECURSIVE Join(_, _)
Join(parts, sep) ==
  IF parts = <<>> THEN ""
  ELSE IF Len(parts) = 1 THEN parts[1]
  ELSE parts[1] \o sep \o Join(Tail(parts), sep)

\* s.replace(old, new): every occurrence, left to right
Replace(s, old, new) == Join(Split(s, old), new)

\* list[1:]
Rest(l) == IF l = <<>> THEN <<>> ELSE Tail(l)

----------------------------------------------------------------------------
(* the filesystem *)

\* f.read() of a file opened in text mode: universal newlines turn "\r\n"
\* and a lone "\r" into "\n"
read_text(raw) == Replace(Replace(raw, "\r\n", "\n"), "\r", "\n")

\* open(p, "w").write(c): creates or replaces; a "\n" is written as it is
WriteFile(d, p, c) == [q \in (DOMAIN d) \cup {p} |-> IF q = p THEN c ELSE d[q]]

\* the directory each script walks
PROJECT_DIR(sc) == IF sc = "fix_all" THEN "./components" ELSE "."

\* the name of path p within its directory
file_name(p) ==
  LET S == {i \in 1..Len(p) : At(p, i) = "/"}
      last == CHOOSE i \in S : \A j \in S : j <= i
  IN SubSeq(p, last + 1, Len(p))

\* the directory of path p (root of the walk step that lists it)
root_of(p) == SubSeq(p, 1, Len(p) - Len(file_name(p)) - 1)

\* os.path.join(root, file) is found by the walk from top
Discovered(top, p) == StartsWith(p, top \o "/") /\ EndsWith(file_name(p), ".tsx")

\* the orders in which a directory listing may come
Orderings(S) ==
  {f \in [1..Cardinality(S) -> S] : \A i, j \in 1..Cardinality(S) : i # j => f[i] # f[j]}

\* the .tsx files os.walk(top) yields
Walk(top, d) == Orderings({p \in DOMAIN d : Discovered(top, p)})

----------------------------------------------------------------------------
(* update_file: dynamic_update_layout.py *)

layout_import == "import { TwoColumnLayout } from './Layout/TwoColumnLayout';"

\* the import injection step
inject_import(content) ==
  IF Contains(content, SEO)
  THEN Replace(content, SEO, layout_import \o SEO)
  ELSE layout_import \o content

W_LEFT == "\n<TwoColumnLayout\n  left={\n    header: <h2 className=\"text-xl font-semibold\">Input Section</h2>,\n    content: (\n      "
W_MID == "\n    ),\n    scrollable: true,\n    minHeight: \"500px\"\n  }\n  right={\n    header: <h2 className=\"text-xl font-semibold\">Output Section</h2>,\n    content: (\n      "
W_END == "\n    ),\n    scrollable: true,\n    minHeight: \"500px\"\n  }\n/>\n"

\* the f-string layout_wrapper
layout_wrapper(input_div, output_div) ==
  W_LEFT \o input_div \o W_MID \o output_div \o W_END

\* the guard left out: no file is taken for migrated
already_updated_never(content) == FALSE

\* the marker guard
already_updated(content) == Contains(content, MARK)

\* the region that starts a part: the delimiter, the part up to its first
\* closing tag, and a closing tag
region_of(part) == DELIM \o SplitOnce(part, CLOSE)[1] \o CLOSE

\* the remainder after the second region
after_of(part) == Join(Rest(Split(part, CLOSE)), CLOSE)

\* new_content for content that passed the guard and the precondition
rewrite(content) ==
  LET parts == Split(content, DELIM)
      before == parts[1]
      input_div == region_of(parts[2])
      output_div == region_of(parts[3])
      after == after_of(parts[3])
  IN before \o layout_wrapper(input_div, output_div) \o after

\* the precondition off by one: two parts are taken for a layout
update_file_two_parts(content) ==
  IF already_updated(content)
  THEN [outcome |-> "already updated", text |-> content]
  ELSE LET injected == inject_import(content)
           parts == Split(injected, DELIM)
       IN IF Len(parts) < 2
          THEN [outcome |-> "layout structure not found", text |-> content]
          ELSE IF Len(parts) = 2
          THEN [outcome |-> "Updated",
                text |-> parts[1] \o layout_wrapper(region_of(parts[2]), region_of(""))]
          ELSE [outcome |-> "Updated", text |-> rewrite(injected)]

\* update_file on the content read: the outcome and, for "Updated", the
\* content it writes
update_file(content) ==
  IF already_updated(content)
  THEN [outcome |-> "already updated", text |-> content]
  ELSE LET injected == inject_import(content)
       IN IF Len(Split(injected, DELIM)) < 3
          THEN [outcome |-> "layout structure not found", text |-> content]
          ELSE [outcome |-> "Updated", text |-> rewrite(injected)]

\* the returned messages
MsgAlready(p) == "Skipped " \o p \o ": already updated."
MsgNoStructure(p) == "Skipped " \o p \o ": layout structure not found."
MsgUpdated(p) == "Updated " \o p \o " successfully."

update_message(p, outcome) ==
  CASE outcome = "already updated" -> MsgAlready(p)
    [] outcome = "layout structure not found" -> MsgNoStructure(p)
    [] outcome = "Updated" -> MsgUpdated(p)

----------------------------------------------------------------------------
(* fix_jsx: fix_all_components.py and fix_jsx_advanced.py *)

\* \s of a str pattern, the Unicode white space: space, \t, \n, \r, \f, the
\* vertical tab (0x0B), the separators 0x1C-0x1F, NEL (0x85), the no-break
\* space (0xA0) and the ogham space mark (U+1680).  U+2000-U+200A, U+2028,
\* U+2029, U+202F, U+205F and U+3000 match \s as well; no string of this
\* module can hold them, so no text of the model has them.
IsSpace(ch) ==
  ch \in { " ", "\t", "\n", "\r", "\f",
           "", "", "", "", "", "", " ", " " }

\* \s* from position i: the first position that does not hold white space
RECURSIVE SkipSpace(_, _)
SkipSpace(s, i) == IF IsSpace(At(s, i)) THEN SkipSpace(s, i + 1) ELSE i

\* \),\s*scrollable:\s*true,\s*minHeight:\s*\"500px\" tried at position i:
\* the position after the match, 0 when it does not match there
TailMatchEnd(s, i) ==
  LET a == SkipSpace(s, i + Len("),"))
      b == SkipSpace(s, a + Len("scrollable:"))
      c == SkipSpace(s, b + Len("true,"))
      d == SkipSpace(s, c + Len("minHeight:"))
  IN IF /\ StartsAt(s, "),", i)
        /\ StartsAt(s, "scrollable:", a)
        /\ StartsAt(s, "true,", b)
        /\ StartsAt(s, "minHeight:", c)
        /\ StartsAt(s, "\"500px\"", d)
     THEN d + Len("\"500px\"")
     ELSE 0

\* the replacement template of the tail rule, as re.sub expands it: \n is a
\* line feed, \) and \" keep their backslash; each script has its own
tail_repl(sc) ==
  IF sc = "fix_all"
  THEN "\\)})\n},\nscrollable: true,\nminHeight: \\\"500px\\\""
  ELSE "\\)})\nscrollable: true,\nminHeight: \\\"500px\\\""

\* re.sub of the tail rule, scanning from position i
RECURSIVE sub_tail(_, _, _)
sub_tail(sc, s, i) ==
  LET M == {j \in i..Len(s) : At(s, j) = ")" /\ TailMatchEnd(s, j) > 0}
  IN IF M = {} THEN SubSeq(s, i, Len(s))
     ELSE LET j == Min(M)
          IN SubSeq(s, i, j - 1) \o tail_repl(sc) \o sub_tail(sc, s, TailMatchEnd(s, j))

\* [^\"]*?shad\n from position k: the position of the "shad" that ends the
\* shortest match, 0 when a double quote or the end of the text comes first
ShadEnd(s, k) ==
  LET m == FindFrom(s, "shad\n", k)
      q == FindFrom(s, "\"", k)
  IN IF m > 0 /\ (q = 0 \/ q > m) THEN m ELSE 0

\* (className=\"[^\"]*?)shad\n tried at position i: the position of the
\* "shad" that ends group 1, 0 when it does not match there
ShadMatchEnd(s, i) ==
  IF StartsAt(s, "className=\"", i) THEN ShadEnd(s, i + Len("className=\"")) ELSE 0

\* re.sub of the truncated class-attribute rule, scanning from position i:
\* group 1 is kept and followed by the template's shadow\">
RECURSIVE sub_shad(_, _)
sub_shad(s, i) ==
  LET M == {j \in i..Len(s) : ShadMatchEnd(s, j) > 0}
  IN IF M = {} THEN SubSeq(s, i, Len(s))
     ELSE LET j == Min(M)
              m == ShadMatchEnd(s, j)
          IN SubSeq(s, i, m - 1) \o "shadow\\\">" \o sub_shad(s, m + Len("shad\n"))

\* re.sub of the tabOrder.map rule: the pattern is a literal
sub_map(s) == Replace(s, TABMAP, TABMAP \o TABBODY)

\* fix_jsx of each script
fix_jsx(sc, content) ==
  LET a == sub_map(content)
      b == sub_tail(sc, a, 1)
  IN IF sc = "fix_all" THEN b ELSE sub_shad(b, 1)

\* os.path.join(root, file.replace('.tsx', '_fixed.tsx'))
fixed_path(p) == root_of(p) \o "/" \o Replace(file_name(p), ".tsx", "_fixed.tsx")

MsgCorrected(p) == "Corrected JSX syntax in: " \o p
MsgFixedJsx(p) == "Fixed JSX syntax in: " \o fixed_path(p)

----------------------------------------------------------------------------
(* the runs of the scripts *)

\* an exception leaves the script: nothing more is processed or printed
Raise ==
  /\ pc' = "crashed"
  /\ UNCHANGED <<disk, idx, results, out, written>>

\* a call of update_file returns msg to the list comprehension
Return(msg) ==
  /\ results' = Append(results, msg)
  /\ idx' = idx + 1
  /\ pc' = "loop"
  /\ UNCHANGED out

\* python compiles the script before it runs it: the unterminated string
\* literal of batch_update_layout.py and of fix_layout_migration.py ends the
\* process before its first statement
SyntaxError ==
  /\ pc = "start"
  /\ script \in {"batch", "fix_layout"}
  /\ pc' = "crashed"
  /\ UNCHANGED <<script, disk, unreadable, unwritable, files, idx, results, out, written, hist>>

\* the script starts and os.walk lists the directory
Start ==
  /\ pc = "start"
  /\ script \in {"dynamic", "fix_all", "fix_advanced"}
  /\ files' \in Walk(PROJECT_DIR(script), disk)
  /\ pc' = "loop"
  /\ UNCHANGED <<script, disk, unreadable, unwritable, idx, results, out, written, hist>>

\* one call of update_file(f) by the list comprehension
UpdateFile ==
  /\ pc = "loop"
  /\ script = "dynamic"
  /\ idx <= Len(files)
  /\ LET p == files[idx]
     IN IF p \in unreadable
        THEN Raise
        ELSE LET r == update_file(read_text(disk[p]))
             IN IF r.outcome # "Updated"
                THEN Return(update_message(p, r.outcome)) /\ UNCHANGED <<disk, written>>
                ELSE IF p \in unwritable
                THEN Raise
                ELSE /\ disk' = WriteFile(disk, p, r.text)
                     /\ written' = written \cup {p}
                     /\ Return(update_message(p, r.outcome))
  /\ UNCHANGED <<script, unreadable, unwritable, files, hist>>

\* the loop that prints the results, after the whole list was processed
PrintReport ==
  /\ pc = "loop"
  /\ script = "dynamic"
  /\ idx > Len(files)
  /\ out' = results
  /\ pc' = "done"
  /\ UNCHANGED <<script, disk, unreadable, unwritable, files, idx, results, written, hist>>

\* fix_all_components.py: one file of the walk
FixAllFile ==
  /\ pc = "loop"
  /\ script = "fix_all"
  /\ idx <= Len(files)
  /\ LET p == files[idx]
     IN IF p \in unreadable \/ p \in unwritable
        THEN Raise
        ELSE /\ disk' = WriteFile(disk, p, fix_jsx(script, read_text(disk[p])))
             /\ written' = written \cup {p}
             /\ out' = Append(out, MsgCorrected(p))
             /\ idx' = idx + 1
             /\ UNCHANGED <<pc, results>>
  /\ UNCHANGED <<script, unreadable, unwritable, files, hist>>

\* fix_jsx_advanced.py: one file of the walk
FixAdvancedFile ==
  /\ pc = "loop"
  /\ script = "fix_advanced"
  /\ idx <= Len(files)
  /\ LET p == files[idx]
     IN IF p \in unreadable \/ fixed_path(p) \in unwritable
        THEN Raise
        ELSE /\ disk' = WriteFile(disk, fixed_path(p), fix_jsx(script, read_text(disk[p])))
             /\ written' = written \cup {fixed_path(p)}
             /\ out' = Append(out, MsgFixedJsx(p))
             /\ idx' = idx + 1
             /\ UNCHANGED <<pc, results>>
  /\ UNCHANGED <<script, unreadable, unwritable, files, hist>>

\* the walk of a sweep is exhausted
Finish ==
  /\ pc = "loop"
  /\ script \in {"fix_all", "fix_advanced"}
  /\ idx > Len(files)
  /\ pc' = "done"
  /\ UNCHANGED <<script, disk, unreadable, unwritable, files, idx, results, out, written, hist>>

\* the same script is run again, as a new process, on the tree it left
Rerun ==
  /\ pc \in {"done", "crashed"}
  /\ Len(hist) < MaxRuns
  /\ hist' = Append(hist, disk)
  /\ pc' = "start"
  /\ files' = <<>>
  /\ idx' = 1
  /\ results' = <<>>
  /\ out' = <<>>
  /\ written' = {}
  /\ UNCHANGED <<script, disk, unreadable, unwritable>>

----------------------------------------------------------------------------
(* initial states *)

\* the texts made of at most n chunks of A
RECURSIVE ChunkTexts(_, _)
ChunkTexts(A, n) ==
  IF n = 0 THEN {""}
  ELSE LET T == ChunkTexts(A, n - 1) IN T \cup {t \o c : t \in T, c \in A}

Target == "./CodeToJsonConverter.tsx"
SweepTarget == "./components/CodeToJsonConverter.tsx"

Fresh ==
  /\ pc = "start"
  /\ files = <<>>
  /\ idx = 1
  /\ results = <<>>
  /\ out = <<>>
  /\ written = {}
  /\ hist = <<disk>>

\* migration of one file with any content
MigrateChunks == {MARK, SEO, DELIM, CLOSE, "x", "\r\n"}

InitMigrate ==
  /\ script \in {"dynamic", "batch"}
  /\ disk \in [{Target} -> ChunkTexts(MigrateChunks, MaxLen)]
  /\ unreadable = {}
  /\ unwritable = {}
  /\ Fresh

\* a tree of files, some of them unreadable or read-only, next to a file
\* that is no .tsx file
TreePaths ==
  <<"./CodeToJsonConverter.tsx", "./CodeToXmlConverter.tsx",
    "./CodeToHtmlConverter.tsx", "./CodeToPythonConverter.tsx">>

TreeTexts == {MARK, "x", DELIM \o "x" \o CLOSE \o DELIM \o "x" \o CLOSE}

InitTree ==
  /\ script \in {"dynamic", "batch"}
  /\ \E S \in SUBSET {TreePaths[i] : i \in 1..MaxFiles} :
       \E d \in [S -> TreeTexts] :
         disk = [p \in S \cup {"./README.md"} |-> IF p \in S THEN d[p] ELSE DELIM]
  /\ unreadable \in SUBSET (DOMAIN disk \ {"./README.md"})
  /\ unwritable \in SUBSET (DOMAIN disk \ {"./README.md"})
  /\ Fresh

\* the sweeps over a component assembled from chunks, one of them a tail
\* spaced by a vertical tab, a file separator, a line feed and a unit
\* separator, another the wrapper update_file writes, with or without a
\* second file outside ./components
SweepChunks ==
  { MARK, "x", "\n", "\r\n", DELIM, TABMAP,
    "),scrollable:true,\n    minHeight:\"500px\"",
    "className=\"x ", "shad\n",
    layout_wrapper("x", "x") }

InitSweep ==
  /\ script \in {"fix_layout", "fix_all", "fix_advanced"}
  /\ \E c \in ChunkTexts(SweepChunks, MaxChunks) :
       \/ disk = [p \in {SweepTarget} |-> c]
       \/ disk = [p \in {SweepTarget, "./App.tsx"} |-> IF p = SweepTarget THEN c ELSE TABMAP]
  /\ unreadable = {}
  /\ unwritable = {}
  /\ Fresh

----------------------------------------------------------------------------
(* specifications *)

NextMigrate == SyntaxError \/ Start \/ UpdateFile \/ PrintReport \/ Rerun
NextSweep == SyntaxError \/ Start \/ FixAllFile \/ FixAdvancedFile \/ Finish \/ Rerun

SpecMigrate == InitMigrate /\ [][NextMigrate]_vars
SpecTree == InitTree /\ [][NextMigrate]_vars
SpecSweep == InitSweep /\ [][NextSweep]_vars

Init == InitMigrate \/ InitTree \/ InitSweep
Next ==
  \/ SyntaxError \/ Start \/ UpdateFile \/ PrintReport
  \/ FixAllFile \/ FixAdvancedFile \/ Finish \/ Rerun
Spec == Init /\ [][Next]_vars

----------------------------------------------------------------------------
(* the claims *)

\* the disk as the current run found it
RunStart == hist[Len(hist)]

\* how often text t occurs in s
Count(s, t) == Cardinality({i \in 1..Len(s) : StartsAt(s, t, i)})

\* the first and the second anchor delimiter of c, and the first closing tag
\* that follows each; 0 when there is none
Delim1(c) == FindFrom(c, DELIM, 1)
Delim2(c) == FindFrom(c, DELIM, Delim1(c) + Len(DELIM))
Close1(c) == FindFrom(c, CLOSE, Delim1(c) + Len(DELIM))
Close2(c) == FindFrom(c, CLOSE, Delim2(c) + Len(DELIM))

\* the files this run has finished, by position in the list
Processed == 1..(idx - 1)

\* C1: Idempotence of the migration: a second run of the migration over the
\* tree the first run left changes no file, whatever the first run did.
C1_Idempotent == Len(hist) >= 2 => disk = hist[2]

\* C1 witness: the first run rewrote the file and the second run has ended.
C1_Witness ==
  /\ script = "dynamic"
  /\ Len(hist) = 2 /\ pc = "done"
  /\ hist[2][Target] # hist[1][Target]
  /\ out = <<MsgAlready(Target)>>

\* C2: Structure precondition: a file without the marker and with at most one
\* anchor delimiter is left as it was, and its result is the 'layout
\* structure not found' skip.
C2_StructurePrecondition ==
  \A i \in 1..Len(files) :
    LET p == files[i]
    IN (/\ ~Contains(RunStart[p], MARK)
        /\ Count(RunStart[p], DELIM) <= 1)
       => /\ disk[p] = RunStart[p]
          /\ p \notin written
          /\ i \in Processed => results[i] = MsgNoStructure(p)

\* C2 witness: a file with one delimiter and the import anchor was processed.
C2_Witness ==
  /\ pc = "done" /\ Len(hist) = 1
  /\ ~Contains(RunStart[Target], MARK)
  /\ Count(RunStart[Target], DELIM) = 1
  /\ Contains(RunStart[Target], SEO)
  /\ out = <<MsgNoStructure(Target)>>
  /\ disk[Target] = RunStart[Target]

\* two anchor regions, each closed by its first following closing tag, the
\* first before the second starts
TwoRegions(c) ==
  /\ ~Contains(c, MARK)
  /\ Count(c, DELIM) = 2
  /\ Close1(c) > 0 /\ Close1(c) < Delim2(c)
  /\ Close2(c) > 0

Region1(c) == SubSeq(c, Delim1(c), Close1(c) + Len(CLOSE) - 1)
Region2(c) == SubSeq(c, Delim2(c), Close2(c) + Len(CLOSE) - 1)

\* C3: Region fidelity: for a file with exactly two well-formed anchor
\* regions, the written content holds the wrapper once, with the first
\* original region verbatim as the content of the 'Input Section' side and the
\* second as the content of the 'Output Section' side, and each region once.
C3_RegionFidelity ==
  \A i \in Processed :
    LET p == files[i]
    IN TwoRegions(RunStart[p])
       => /\ results[i] = MsgUpdated(p)
          /\ Count(disk[p], layout_wrapper(Region1(RunStart[p]), Region2(RunStart[p]))) = 1
          /\ Count(disk[p], DELIM) = 2

\* C4: Surrounding text is preserved: the written content is the text before
\* the first delimiter, the wrapper, and then everything that follows the
\* second region's first closing tag, later closing tags and later delimiters
\* included.  The text is taken as the locator sees it, import line included.
C4_SurroundingPreserved ==
  \A i \in Processed :
    LET p == files[i]
    IN (/\ ~Contains(RunStart[p], MARK)
        /\ Count(RunStart[p], DELIM) >= 2
        /\ Close2(RunStart[p]) > 0)
       => LET c == inject_import(RunStart[p])
              w == disk[p]
              e == FindFrom(w, W_END, 1)
          IN /\ results[i] = MsgUpdated(p)
             /\ Count(w, W_LEFT) = 1 /\ Count(w, W_END) = 1
             /\ SubSeq(w, 1, FindFrom(w, W_LEFT, 1) - 1) = SubSeq(c, 1, Delim1(c) - 1)
             /\ SubSeq(w, e + Len(W_END), Len(w)) = SubSeq(c, Close2(c) + Len(CLOSE), Len(c))

\* C5: Import injection: a migrated file holds exactly one copy of the import
\* line, right before the anchor 'import SEO from' when the file has the
\* anchor and at the very top otherwise; a file with the marker gains none.
C5_ImportInjection ==
  \A i \in Processed :
    LET p == files[i]
    IN IF Contains(RunStart[p], MARK)
       THEN disk[p] = RunStart[p]
       ELSE results[i] = MsgUpdated(p)
            => /\ Count(disk[p], layout_import) = 1
               /\ IF Contains(RunStart[p], SEO)
                  THEN Count(disk[p], layout_import \o SEO) = 1
                  ELSE StartsWith(disk[p], layout_import)

\* a rule of fix_jsx matches somewhere in s
RuleMatches(sc, s) ==
  \/ Contains(s, TABMAP)
  \/ \E i \in 1..Len(s) : TailMatchEnd(s, i) > 0
  \/ sc = "fix_advanced" /\ \E i \in 1..Len(s) : ShadMatchEnd(s, i) > 0

\* C7: Post-fix idempotence: fix_jsx leaves text that matches no rule as it
\* is, and fix_jsx(fix_jsx(t)) = fix_jsx(t): a second sweep of
\* fix_all_components changes nothing, and fix_jsx_advanced's fix of a
\* fixed file equals the fixed file.
C7_PostfixIdempotent ==
  LET t == read_text(RunStart[SweepTarget])
  IN /\ (script = "fix_all" /\ Len(hist) >= 2) => disk[SweepTarget] = hist[2][SweepTarget]
     /\ (script = "fix_advanced" /\ fixed_path(fixed_path(SweepTarget)) \in DOMAIN disk)
          => disk[fixed_path(fixed_path(SweepTarget))] = disk[fixed_path(SweepTarget)]
     /\ (script = "fix_all" /\ SweepTarget \in written /\ ~RuleMatches(script, t))
          => disk[SweepTarget] = t
     /\ (script = "fix_advanced" /\ fixed_path(SweepTarget) \in written
           /\ ~RuleMatches(script, t))
          => disk[fixed_path(SweepTarget)] = t

\* the outcome lines of the migration for path p
OutcomeLines(p) ==
  { MsgUpdated(p), MsgAlready(p), MsgNoStructure(p),
    "Skipped " \o p \o ": file not found." }

\* C8: Per-file independence and report coverage: when a migration run has
\* ended, by completion or by an error, the report holds exactly one outcome
\* line for every .tsx file of the tree.
C8_ReportCoversEveryFile ==
  pc \in {"done", "crashed"}
    => \A p \in DOMAIN RunStart :
         Discovered(".", p)
           => Cardinality({i \in 1..Len(out) :
                 out[i] \in OutcomeLines(p) \cup OutcomeLines(file_name(p))}) = 1

\* C9: Post-fix and cleanup passes operate only on migrated files: a
\* discovered .tsx file without the marker is not written, not changed and
\* not backed up by fix_layout_migration, fix_all_components or
\* fix_jsx_advanced.
C9_OnlyMigratedFiles ==
  \A p \in DOMAIN RunStart :
    (Discovered(PROJECT_DIR(script), p) /\ ~Contains(RunStart[p], MARK))
       => /\ p \notin written
          /\ (p \o ".bak") \notin written
          /\ disk[p] = RunStart[p]

\* C10: The cleanup pass refreshes the backup on every run and is idempotent
\* on content: when a run of fix_layout_migration has ended, every .tsx file
\* that held the marker has a backup at '<path>.bak' with the content the
\* run found, no line of the file holds the anchor delimiter, and a second
\* run leaves the content the first run wrote.
C10_CleanupIdempotent ==
  (script = "fix_layout" /\ pc \in {"done", "crashed"})
    => \A p \in DOMAIN RunStart :
         (Discovered(".", p) /\ Contains(RunStart[p], MARK))
           => /\ (p \o ".bak") \in DOMAIN disk
              /\ disk[p \o ".bak"] = RunStart[p]
              /\ ~Contains(disk[p], DELIM)
              /\ Len(hist) = 2 => disk[p] = hist[2][p]

====
